---- MODULE Spec2Model ----
(***************************************************************************)
(* Model of the kernel heap allocator of src/src/kernel/kmalloc.c:         *)
(* kmalloc_init, kmalloc, kfree, calculate_node_checksum.                  *)
(*                                                                         *)
(* The chunk bitmap (pool), the page backing table (pages) and the words   *)
(* of memory that hold allocation headers (mem) are the program's state.   *)
(* The physical page provider (allocate_physical_page, free_physical_page) *)
(* is the environment: it hands out any page frame it does not currently   *)
(* have handed out.  live, freed, last, ops and badRelease are history     *)
(* variables that record what the caller holds and what the last call did. *)
(* A word of mem keeps the value last stored in it, also after the page    *)
(* that holds it has been released: nothing in kfree wipes a header.       *)
(***************************************************************************)
EXTENDS Integers, Naturals, Sequences, FiniteSets, TLC

VARIABLES pool, pages, mem, held, live, freed, halted, last, ops, badRelease, probe,
          eternal

vars == <<pool, pages, mem, held, live, freed, halted, last, ops, badRelease, probe, eternal>>

(***************************************************************************)
(* Program constants.                                                      *)
(***************************************************************************)
\* #define CHUNK_SIZE sizeof(size_t): 4 on the 32-bit target of the kernel.
CHUNK_SIZE == 4

\* PAGE_SIZE comes from memory_manager.h (4096 in the kernel).  The model keeps
\* it a multiple of CHUNK_SIZE * 8 and larger than PAGE_SIZE / CHUNK_SIZE, as
\* in the kernel, scaled down so that several windows fit a small bitmap.
PAGE_SIZE == 64

\* sizeof(allocation_node): start_chunk (u32), chunk_size (u32), checksum (u8)
\* and three bytes of padding.
NodeSize == 12

(***************************************************************************)
(* Bounds of the model.                                                    *)
(***************************************************************************)
\* memory_manager_get_available_memory(), in bytes
MemorySize == 192

\* page frames the provider can hand to the heap; frame f is address f * PAGE_SIZE
NFrames == 3

\* number of allocator calls in one behaviour
MaxOps == 6

\* the largest request size of the set-and-clear round trips
MaxRequest == 9

\* number of kalloc_eternal calls in one behaviour
MaxEternalCalls == 2

\* the largest length passed to kalloc_eternal
MaxLength == 20

\* request sizes in bytes tried by kmalloc's callers
Sizes == {1, 52}

(***************************************************************************)
(* libk helpers (libk/math.h, libk/bits.h).                                *)
(***************************************************************************)
divide_and_round_up(a, b) == (a + b - 1) \div b

Pow2(n) == <<1, 2, 4, 8, 16, 32, 64, 128>>[n + 1]

BIT_GET(byte, bit) == (byte \div Pow2(bit)) % 2

BIT_SET(byte, bit) == IF BIT_GET(byte, bit) = 1 THEN byte ELSE byte + Pow2(bit)

BIT_CLEAR(byte, bit) == IF BIT_GET(byte, bit) = 1 THEN byte - Pow2(bit) ELSE byte

(***************************************************************************)
(* kmalloc_init                                                            *)
(***************************************************************************)
CHUNK_COUNT == MemorySize \div CHUNK_SIZE

\* pool = kalloc_eternal(sizeof(u8), CHUNK_COUNT / 8)
PoolBytes == CHUNK_COUNT \div 8

\* pages = kalloc_eternal(sizeof(addr), CHUNK_COUNT / (PAGE_SIZE / CHUNK_SIZE))
PageEntries == CHUNK_COUNT \div (PAGE_SIZE \div CHUNK_SIZE)

Frames == 1..NFrames

FrameAddr(f) == f * PAGE_SIZE

NoCall == [op |-> "none", ptr |-> 0, start |-> 0, need |-> 0, size |-> 0, stale |-> FALSE]

NoProbe == [start |-> 0, size |-> 0, done |-> FALSE]

\* static addr eternal_address = 0, with what the bootstrap allocator has
\* returned and acquired so far
NoEternal == [address |-> 0, result |-> 0, size |-> 0, first |-> 0, acquired |-> 0,
              calls |-> 0]

Init ==
    /\ pool = [b \in 0..(PoolBytes - 1) |-> 0]
    /\ pages = [w \in 0..(PageEntries - 1) |-> 0]
    /\ mem = [a \in {} |-> 0]
    /\ held = {}
    /\ live = {}
    /\ freed = {}
    /\ halted = "no"
    /\ last = NoCall
    /\ ops = 0
    /\ badRelease = FALSE
    /\ probe = NoProbe
    /\ eternal = NoEternal

(***************************************************************************)
(* Memory: a word (u32, little-endian) at each CHUNK_SIZE-aligned address  *)
(* that has been written.                                                  *)
(***************************************************************************)
\* ((u8 *)node)[i]
NodeByte(m, node, i) ==
    LET w == m[node + CHUNK_SIZE * (i \div CHUNK_SIZE)]
        k == i % CHUNK_SIZE
    IN  (w \div (IF k = 0 THEN 1 ELSE IF k = 1 THEN 256 ELSE IF k = 2 THEN 65536 ELSE 16777216)) % 256

\* the loop of calculate_node_checksum: checksum = (checksum + byte[i]) & 0xFF
RECURSIVE ChecksumLoop(_, _, _, _)
ChecksumLoop(m, node, i, checksum) ==
    IF i < NodeSize
    THEN ChecksumLoop(m, node, i + 1, (checksum + NodeByte(m, node, i)) % 256)
    ELSE checksum

\* the mutated return of calculate_node_checksum: the one's complement only
calculate_node_checksum_NoIncrement(m, node) ==
    255 - ChecksumLoop(m, node, 0, 0)

\* return ((checksum ^ 0xFF) + 1) & 0xFF
calculate_node_checksum(m, node) ==
    ((255 - ChecksumLoop(m, node, 0, 0)) + 1) % 256

\* lines 87-91: memset(node, 0, sizeof(allocation_node)); node->start_chunk = ...;
\* node->chunk_size = ...; node->checksum = calculate_node_checksum(node).
\* The checksum is computed over the record with its checksum byte still 0.
WriteNode(m, node, start_chunk, chunk_size) ==
    LET fields == [x \in (DOMAIN m) \cup {node, node + 4, node + 8} |->
                     IF x = node THEN start_chunk
                     ELSE IF x = node + 4 THEN chunk_size
                     ELSE IF x = node + 8 THEN 0
                     ELSE m[x]]
    IN  [fields EXCEPT ![node + 8] = calculate_node_checksum(fields, node)]

(***************************************************************************)
(* kmalloc                                                                 *)
(***************************************************************************)
ChunkBit(p, c) == BIT_GET(p[c \div 8], c % 8)

\* the mutated inner loop: only the first chunk of the sequence is examined
FirstOccupied_FirstChunkOnly(p, start_chunk_number, chunks_to_allocate, i) ==
    IF BIT_GET(p[start_chunk_number \div 8], start_chunk_number % 8) # 0
    THEN 0
    ELSE chunks_to_allocate

\* the inner for loop (lines 42-63): the first i < chunks_to_allocate whose
\* chunk is occupied, or chunks_to_allocate when the sequence is free
RECURSIVE FirstOccupied(_, _, _, _)
FirstOccupied(p, start_chunk_number, chunks_to_allocate, i) ==
    IF i < chunks_to_allocate
    THEN IF ChunkBit(p, start_chunk_number + i) # 0
         THEN i
         ELSE FirstOccupied(p, start_chunk_number, chunks_to_allocate, i + 1)
    ELSE chunks_to_allocate

\* the outer for loop (lines 38-63): the start chunk of the sequence found,
\* or -1 when the loop ends without one
RECURSIVE Scan(_, _, _)
Scan(p, chunks_to_allocate, start_chunk_number) ==
    IF ~(start_chunk_number + chunks_to_allocate < CHUNK_COUNT)
    THEN -1
    ELSE LET i == FirstOccupied(p, start_chunk_number, chunks_to_allocate, 0)
             chunk_number == start_chunk_number + i
         IN  IF i = chunks_to_allocate
             THEN start_chunk_number
             ELSE IF p[chunk_number \div 8] = 255
                  THEN Scan(p, chunks_to_allocate, (start_chunk_number + 7) + 1)
                  ELSE Scan(p, chunks_to_allocate, chunk_number + 1)

\* u32 page_index = chunk_number / (PAGE_SIZE / CHUNK_SIZE)
PageIndex(chunk_number) == chunk_number \div (PAGE_SIZE \div CHUNK_SIZE)

Run(start, n) == start..(start + n - 1)

\* the loop of lines 67-80 on bitmap byte b: BIT_SET(pool[pool_index],
\* chunk_number % 8) for every chunk of the run that lies in byte b
SetBits(byte, b, start, n) ==
    LET set(k) == IF (8 * b + k) \in Run(start, n) THEN BIT_SET(byte, k) - byte ELSE 0
    IN  byte + set(0) + set(1) + set(2) + set(3) + set(4) + set(5) + set(6) + set(7)

SetRun(p, start, n) == [b \in DOMAIN p |-> SetBits(p[b], b, start, n)]

\* the windows of the run whose table entry is 0 (lines 70-77)
Unbacked(pg, start, n) == {PageIndex(c) : c \in Run(start, n)} \cap {w \in DOMAIN pg : pg[w] = 0}

\* u32 start_page_index = start_chunk_number / PAGE_SIZE;
\* addr = pages[start_page_index] + (start_chunk_number - start_page_index * PAGE_SIZE) * CHUNK_SIZE
NodeAddr(pg, start_chunk_number) ==
    LET start_page_index == start_chunk_number \div PAGE_SIZE
    IN  pg[start_page_index] + (start_chunk_number - start_page_index * PAGE_SIZE) * CHUNK_SIZE

Halt(why, call) ==
    /\ halted' = why
    /\ last' = call
    /\ ops' = ops + 1

\* lines 65-97: the sequence was found at start_chunk_number
KmallocFound(size, chunks_to_allocate, start_chunk_number, call) ==
    \* allocate_physical_page() for each unbacked window of the run: any
    \* frames not handed out (the provider is assumed to always succeed, so
    \* the call is not taken when it has too few frames left)
    \E give \in [Unbacked(pages, start_chunk_number, chunks_to_allocate) -> Frames \ held] :
       /\ \A v, w \in DOMAIN give : v # w => give[v] # give[w]
       /\ \E pg \in {[w \in DOMAIN pages |->
                        IF w \in DOMAIN give THEN FrameAddr(give[w]) ELSE pages[w]]} :
          \E node \in {NodeAddr(pg, start_chunk_number)} :
             /\ pages' = pg
             /\ held' = held \cup {give[w] : w \in DOMAIN give}
             /\ pool' = SetRun(pool, start_chunk_number, chunks_to_allocate)
             /\ mem' = WriteNode(mem, node, start_chunk_number,
                                 divide_and_round_up((size + NodeSize) - NodeSize, CHUNK_SIZE))
             /\ live' = live \cup {[id |-> ops, ptr |-> node + NodeSize,
                                    start |-> start_chunk_number,
                                    need |-> chunks_to_allocate,
                                    size |-> size]}
             /\ last' = [call EXCEPT !.ptr = node + NodeSize]
             /\ ops' = ops + 1
             /\ UNCHANGED <<freed, halted, badRelease, probe, eternal>>

Kmalloc(size) ==
    /\ halted = "no"
    /\ ops < MaxOps
    \* ASSERT(size > 0)
    /\ size > 0
    /\ \E chunks_to_allocate \in {divide_and_round_up(size + NodeSize, CHUNK_SIZE)} :
       \E start_chunk_number \in {Scan(pool, chunks_to_allocate, 0)} :
          LET call == [op |-> "kmalloc", ptr |-> 0, start |-> start_chunk_number,
                       need |-> chunks_to_allocate, size |-> size, stale |-> FALSE]
          IN  IF start_chunk_number = -1
              THEN \* ASSERT_ALWAYS("Couldn't find a contigous sequence ...")
                   /\ Halt("oom", call)
                   /\ UNCHANGED <<pool, pages, mem, held, live, freed, badRelease, probe, eternal>>
              ELSE KmallocFound(size, chunks_to_allocate, start_chunk_number, call)

(***************************************************************************)
(* kfree                                                                   *)
(***************************************************************************)
\* u16 chunk_index = i / 8 keeps the low 16 bits of the byte index
chunk_index(i) == (i \div 8) % 65536

\* the bit-clearing loop (lines 114-122) from chunk i: the first chunk whose
\* assertion fails, or end when the loop clears every bit up to end.  (No two
\* chunks of a run shorter than 8 * 65536 share a chunk_index and a bit, so
\* each assertion reads a bit the loop has not written.)
RECURSIVE ClearStop(_, _, _)
ClearStop(p, i, end) ==
    IF i < end
    THEN IF chunk_index(i) \in DOMAIN p /\ BIT_GET(p[chunk_index(i)], i % 8) = 1
         THEN ClearStop(p, i + 1, end)
         ELSE i
    ELSE end

\* the mutated clearing loop: it starts one chunk late, at start_chunk + 1
ClearBits_SkipsFirst(byte, b, start, stop) ==
    LET clr(k) == IF \E i \in (start + 1)..(stop - 1) : chunk_index(i) = b /\ i % 8 = k
                  THEN byte - BIT_CLEAR(byte, k) ELSE 0
    IN  byte - (clr(0) + clr(1) + clr(2) + clr(3) + clr(4) + clr(5) + clr(6) + clr(7))

\* BIT_CLEAR(pool[chunk_index], chunk_bit) for the chunks start..stop-1 in byte b
ClearBits(byte, b, start, stop) ==
    LET clr(k) == IF \E i \in start..(stop - 1) : chunk_index(i) = b /\ i % 8 = k
                  THEN byte - BIT_CLEAR(byte, k) ELSE 0
    IN  byte - (clr(0) + clr(1) + clr(2) + clr(3) + clr(4) + clr(5) + clr(6) + clr(7))

\* the mutated loop bound: the chunks of the header are left out
ClearLoop_WithoutHeader(p, start, end) ==
    LET stop == ClearStop(p, start, end - divide_and_round_up(NodeSize, CHUNK_SIZE))
    IN  [pool |-> [b \in DOMAIN p |-> ClearBits(p[b], b, start, stop)],
         stop |-> IF stop = end - divide_and_round_up(NodeSize, CHUNK_SIZE) THEN "no"
                  ELSE IF chunk_index(stop) \in DOMAIN p THEN "bit" ELSE "wild"]

\* the bitmap the loop leaves and the assertion that stopped it, if any
ClearLoop(p, start, end) ==
    LET stop == ClearStop(p, start, end)
    IN  [pool |-> [b \in DOMAIN p |-> ClearBits(p[b], b, start, stop)],
         stop |-> IF stop = end THEN "no"
                  ELSE IF chunk_index(stop) \in DOMAIN p THEN "bit" ELSE "wild"]

\* const u32 bytes_per_page = PAGE_SIZE / CHUNK_SIZE / 8
bytes_per_page == (PAGE_SIZE \div CHUNK_SIZE) \div 8

\* the mutated can_free: only the first bitmap byte of the window is examined
can_free_FirstByteOnly(p, i) == p[i * bytes_per_page] = 0

\* can_free (lines 127-137): every bitmap byte j of window i is 0
can_free(p, i) ==
    \A j \in (i * bytes_per_page)..((i * bytes_per_page) + bytes_per_page - 1) : p[j] = 0

\* the window indices the release loop visits (line 124)
ReleaseRange(start_chunk, chunk_size) ==
    (start_chunk \div PAGE_SIZE)..((start_chunk + chunk_size) \div PAGE_SIZE)

\* the table entries the release loop passes to free_physical_page (lines 139-146)
Released(p, start_chunk, chunk_size) ==
    {i \in ReleaseRange(start_chunk, chunk_size) : can_free(p, i)}

\* lines 114-147: the checksum assertion has passed
KfreeNode(start_chunk, chunk_size, call) ==
    \E cleared \in {ClearLoop(pool, start_chunk,
                        start_chunk + chunk_size + divide_and_round_up(NodeSize, CHUNK_SIZE))} :
       IF cleared.stop # "no"
       THEN \* ASSERT(BIT_GET(pool[chunk_index], chunk_bit) == true)
            /\ Halt(cleared.stop, call)
            /\ pool' = cleared.pool
            /\ UNCHANGED <<pages, mem, held, badRelease, probe, eternal>>
       ELSE \E rel \in {Released(cleared.pool, start_chunk, chunk_size)} :
               /\ pool' = cleared.pool
               /\ pages' = [w \in DOMAIN pages |-> IF w \in rel THEN 0 ELSE pages[w]]
               \* free_physical_page(pages[i])
               /\ held' = held \ {f \in Frames : \E w \in rel : pages[w] = FrameAddr(f)}
               /\ badRelease' = (badRelease \/ \E w \in rel :
                                    pages[w] \notin {FrameAddr(f) : f \in held})
               /\ last' = call
               /\ ops' = ops + 1
               /\ UNCHANGED <<mem, halted, probe, eternal>>

\* kfree(address); stale tells whether the caller had freed address before
KfreeCall(address, stale) ==
    \E node \in {address - NodeSize} :
       LET start_chunk == mem[node]
           chunk_size == mem[node + 4]
           call == [op |-> "kfree", ptr |-> address, start |-> start_chunk,
                    need |-> chunk_size + divide_and_round_up(NodeSize, CHUNK_SIZE),
                    size |-> 0, stale |-> stale]
       IN  IF calculate_node_checksum(mem, node) # 0
           THEN \* ASSERT(!calculate_node_checksum(node))
                /\ Halt("checksum", call)
                /\ UNCHANGED <<pool, pages, mem, held, badRelease, probe, eternal>>
           ELSE KfreeNode(start_chunk, chunk_size, call)

\* kfree of an address the caller holds
Kfree ==
    /\ halted = "no"
    /\ ops < MaxOps
    /\ \E a \in live :
          /\ KfreeCall(a.ptr, FALSE)
          /\ live' = IF halted' = "no" THEN live \ {a} ELSE live
          /\ freed' = IF halted' = "no" THEN freed \cup {a.ptr} ELSE freed

\* kfree of an address the caller has freed and kmalloc has not returned since
KfreeAgain ==
    /\ halted = "no"
    /\ ops < MaxOps
    /\ \E address \in freed :
          /\ \A a \in live : a.ptr # address
          /\ KfreeCall(address, TRUE)
          /\ UNCHANGED <<live, freed>>

Next == (\E size \in Sizes : Kmalloc(size)) \/ Kfree

Spec == Init /\ [][Next]_vars

NextAgain == (\E size \in Sizes : Kmalloc(size)) \/ Kfree \/ KfreeAgain

SpecAgain == Init /\ [][NextAgain]_vars

(***************************************************************************)
(* The header record on its own: kmalloc's lines 87-91 applied to start    *)
(* chunk and chunk count values of every byte width.                       *)
(***************************************************************************)
\* (values up to 2^31 - 1, the largest integer TLC represents)
FieldValues == {0, 1, 2, 100, 127, 128, 255, 256, 257, 511, 65535, 65536,
                16777215, 16777216, 2147483647}

ProbeAddr == FrameAddr(1)

InitChecksum ==
    /\ pool = [b \in 0..(PoolBytes - 1) |-> 0]
    /\ pages = [w \in 0..(PageEntries - 1) |-> 0]
    /\ mem = [a \in {} |-> 0]
    /\ held = {}
    /\ live = {}
    /\ freed = {}
    /\ halted = "no"
    /\ last = NoCall
    /\ ops = 0
    /\ badRelease = FALSE
    /\ probe \in [start : FieldValues, size : FieldValues, done : {FALSE}]
    /\ eternal = NoEternal

WriteProbe ==
    /\ ~probe.done
    /\ mem' = WriteNode(mem, ProbeAddr, probe.start, probe.size)
    /\ probe' = [probe EXCEPT !.done = TRUE]
    /\ UNCHANGED <<pool, pages, held, live, freed, halted, last, ops, badRelease, eternal>>

NextChecksum == WriteProbe

SpecChecksum == InitChecksum /\ [][NextChecksum]_vars

(***************************************************************************)
(* kmalloc and kfree of one request size, any size up to MaxRequest, with  *)
(* at most two blocks live.                                                *)
(***************************************************************************)
InitRound ==
    /\ pool = [b \in 0..(PoolBytes - 1) |-> 0]
    /\ pages = [w \in 0..(PageEntries - 1) |-> 0]
    /\ mem = [a \in {} |-> 0]
    /\ held = {}
    /\ live = {}
    /\ freed = {}
    /\ halted = "no"
    /\ last = NoCall
    /\ ops = 0
    /\ badRelease = FALSE
    /\ probe \in [start : {0}, size : 1..MaxRequest, done : {FALSE}]
    /\ eternal = NoEternal

KmallocRound == Cardinality(live) < 2 /\ Kmalloc(probe.size)

NextRound == KmallocRound \/ Kfree

SpecRound == InitRound /\ [][NextRound]_vars

(***************************************************************************)
(* A caller that overwrites one byte of the header of the block kmalloc    *)
(* has just returned, once.                                                *)
(***************************************************************************)
Deltas == {1, 255}

\* ((u8 *)node)[i] = value
StoreByte(m, node, i, value) ==
    LET at == node + CHUNK_SIZE * (i \div CHUNK_SIZE)
        k == i % CHUNK_SIZE
        unit == IF k = 0 THEN 1 ELSE IF k = 1 THEN 256 ELSE IF k = 2 THEN 65536 ELSE 16777216
    IN  [m EXCEPT ![at] = (m[at] - NodeByte(m, node, i) * unit) + value * unit]

Tamper ==
    /\ halted = "no"
    /\ ~probe.done
    /\ last.op = "kmalloc"
    /\ \E a \in {b \in live : b.ptr = last.ptr}, i \in 0..(NodeSize - 1), d \in Deltas :
          \* (a word stays below 2^31, the largest integer TLC represents)
          /\ i % CHUNK_SIZE = 3 => (NodeByte(mem, a.ptr - NodeSize, i) + d) % 256 < 128
          /\ mem' = StoreByte(mem, a.ptr - NodeSize, i,
                              (NodeByte(mem, a.ptr - NodeSize, i) + d) % 256)
    /\ probe' = [probe EXCEPT !.done = TRUE]
    /\ UNCHANGED <<pool, pages, held, live, freed, halted, last, ops, badRelease, eternal>>

\* the caller allocates at most two blocks at a time, and none after tampering
KmallocFew == ~probe.done /\ Cardinality(live) < 2 /\ \E size \in Sizes : Kmalloc(size)

NextTamper == KmallocFew \/ Kfree \/ Tamper

SpecTamper == Init /\ [][NextTamper]_vars

(***************************************************************************)
(* kalloc_eternal, with a page provider that hands out physically          *)
(* consecutive pages: the k-th page acquired is first + k * PAGE_SIZE.     *)
(***************************************************************************)
ElementSizes == {1, 4}

\* the mutated page count: the cursor's offset in its page is ignored
pages_to_allocate_SizeOnly(eternal_address, size) == size \div PAGE_SIZE

\* u32 pages_to_allocate = (eternal_address + size) / PAGE_SIZE - eternal_address / PAGE_SIZE
pages_to_allocate(eternal_address, size) ==
    ((eternal_address + size) \div PAGE_SIZE) - (eternal_address \div PAGE_SIZE)

\* memset((addr *)eternal_address, 0, size), on the words the region touches
ZeroWords(m, address, size) ==
    LET words == {x \in (address - (CHUNK_SIZE - 1))..(address + size - 1) : x % CHUNK_SIZE = 0}
    IN  [x \in (DOMAIN m) \cup words |-> IF x \in words THEN 0 ELSE m[x]]

kalloc_eternal(element_size, length) ==
    /\ eternal.calls < MaxEternalCalls
    \* ASSERT(element_size > 0 && length > 0)
    /\ element_size > 0 /\ length > 0
    /\ \E first \in (IF eternal.address = 0 THEN {FrameAddr(f) : f \in Frames}
                                            ELSE {eternal.first}) :
          LET eternal_address == IF eternal.address = 0 THEN first ELSE eternal.address
              acquired == IF eternal.address = 0 THEN 1 ELSE eternal.acquired
              size == element_size * length
          IN  /\ eternal' = [address |-> eternal_address + size,
                             result |-> eternal_address,
                             size |-> size,
                             first |-> first,
                             acquired |-> acquired + pages_to_allocate(eternal_address, size),
                             calls |-> eternal.calls + 1]
              /\ mem' = ZeroWords(mem, eternal_address, size)
    /\ UNCHANGED <<pool, pages, held, live, freed, halted, last, ops, badRelease, probe>>

NextEternal == \E element_size \in ElementSizes, length \in 1..MaxLength :
                  kalloc_eternal(element_size, length)

SpecEternal == Init /\ [][NextEternal]_vars

(***************************************************************************)
(* The bitmap byte index of a chunk, as kmalloc and as kfree compute it,   *)
(* for chunk numbers up to the 2^30 chunks of a 32-bit memory size.        *)
(***************************************************************************)
\* u32 pool_index = chunk_number / 8
pool_index(chunk_number) == chunk_number \div 8

ChunkNumbers == (0..(CHUNK_COUNT - 1)) \cup
                {65535, 65536, 524280, 524287, 524288, 524289, 1048576, 16777216,
                 1073741823}

InitIndex ==
    /\ pool = [b \in 0..(PoolBytes - 1) |-> 0]
    /\ pages = [w \in 0..(PageEntries - 1) |-> 0]
    /\ mem = [a \in {} |-> 0]
    /\ held = {}
    /\ live = {}
    /\ freed = {}
    /\ halted = "no"
    /\ last = NoCall
    /\ ops = 0
    /\ badRelease = FALSE
    /\ probe \in [start : ChunkNumbers, size : {0}, done : {FALSE}]
    /\ eternal = NoEternal

\* kfree's line 116 applied to chunk probe.start
IndexProbe ==
    /\ ~probe.done
    /\ probe' = [probe EXCEPT !.size = chunk_index(probe.start), !.done = TRUE]
    /\ UNCHANGED <<pool, pages, mem, held, live, freed, halted, last, ops, badRelease, eternal>>

NextIndex == IndexProbe

SpecIndex == InitIndex /\ [][NextIndex]_vars

(***************************************************************************)
(* What the properties speak of.                                           *)
(***************************************************************************)
Chunks == 0..(CHUNK_COUNT - 1)

\* the chunk run of an allocation: header chunks plus payload chunks
RunOf(a) == Run(a.start, a.need)

\* the window of a chunk: chunkIndex / chunksPerWindow
WindowOf(c) == c \div (PAGE_SIZE \div CHUNK_SIZE)

Occupied(p, c) == ChunkBit(p, c) = 1

\* the chunk counts that the request sizes need
Needs == {divide_and_round_up(size + NodeSize, CHUNK_SIZE) : size \in Sizes}

Completed == halted = "no"

\* C1: the chunk runs of any two distinct live allocations are disjoint.
C1_NoOverlap ==
    Completed => \A a, b \in live : a # b => RunOf(a) \cap RunOf(b) = {}

\* C2: bitmap bit i is set if and only if chunk i belongs to the run of some
\* live allocation, for every chunk i.
C2_BitmapIsLiveRuns ==
    Completed => \A i \in Chunks : Occupied(pool, i) <=> \E a \in live : i \in RunOf(a)

\* C3: every byte of a live block, from the header's first byte through
\* returned pointer + size - 1, lies inside the page recorded in the table for
\* the window of that byte's chunk.
C3_BlockInsideBackingPage ==
    Completed =>
       \A a \in live : \A o \in 0..(NodeSize + a.size - 1) :
          LET x == (a.ptr - NodeSize) + o
              w == WindowOf(a.start + (o \div CHUNK_SIZE))
          IN  /\ pages[w] # 0
              /\ pages[w] <= x
              /\ x < pages[w] + PAGE_SIZE

\* C4: once every allocation made has been freed, the bitmap is entirely
\* clear and every entry of the page backing table is 0.
C4_FreeReclaimsFully ==
    (Completed /\ live = {}) =>
       /\ \A b \in DOMAIN pool : pool[b] = 0
       /\ \A w \in DOMAIN pages : pages[w] = 0

\* C5: between completed operations, every chunk whose bitmap bit is set lies
\* in a window whose page backing table entry is nonzero.
C5_SetBitsAreBacked ==
    Completed => \A i \in Chunks : Occupied(pool, i) => pages[WindowOf(i)] # 0

\* a kfree has released the window of the run it freed while other chunks stay occupied
C5_Witness ==
    /\ Completed
    /\ last.op = "kfree"
    /\ pages[WindowOf(last.start)] = 0
    /\ \E i \in Chunks : Occupied(pool, i)

\* C6: after every completed kfree, every window that is marked backed
\* contains at least one set bitmap bit.
C6_NoLeakedBacking ==
    (Completed /\ last.op = "kfree") =>
       \A w \in DOMAIN pages :
          pages[w] # 0 => \E i \in Chunks : WindowOf(i) = w /\ Occupied(pool, i)

\* C7: a kfree of an address that was freed and not returned by kmalloc since
\* halts with a fatal assertion, and clears no bit of a live allocation.
C7_DoubleFreeHalts ==
    (last.op = "kfree" /\ last.stale) =>
       /\ halted # "no"
       /\ \A a \in live : \A i \in RunOf(a) : Occupied(pool, i)

\* C8: the bytes of a header written by kmalloc, the stored checksum byte
\* included, sum to 0 modulo 256, and calculate_node_checksum over it is 0.
C8_ChecksumRoundTrip ==
    probe.done =>
       /\ ChecksumLoop(mem, ProbeAddr, 0, 0) = 0
       /\ calculate_node_checksum(mem, ProbeAddr) = 0
       /\ mem[ProbeAddr] = probe.start
       /\ mem[ProbeAddr + 4] = probe.size

\* a header whose fields span several bytes and whose checksum byte is not 0
C8_Witness ==
    /\ probe.done
    /\ probe.start > 65535
    /\ probe.size > 255
    /\ mem[ProbeAddr + 8] # 0

\* chunks s .. s+need-1 are all free, at a start position the scan accepts
FreeRunAt(p, s, need) ==
    /\ s + need < CHUNK_COUNT
    /\ \A c \in Run(s, need) : ~Occupied(p, c)

\* C9: whenever kmalloc succeeds, the start chunk it chooses is the lowest
\* index s such that chunks s .. s+need-1 are all free.
C9_FirstFit ==
    [][(last'.op = "kmalloc" /\ ops' = ops + 1 /\ halted' = "no") =>
          /\ FreeRunAt(pool, last'.start, last'.need)
          /\ \A s \in 0..(last'.start - 1) : ~FreeRunAt(pool, s, last'.need)]_vars

\* the scan from start position s: every skip over a fully occupied byte
\* jumps over no start position of a free run of need chunks
RECURSIVE SkipsAreSafe(_, _, _)
SkipsAreSafe(p, need, s) ==
    IF ~(s + need < CHUNK_COUNT)
    THEN TRUE
    ELSE LET i == FirstOccupied(p, s, need, 0)
         IN  IF i = need
             THEN TRUE
             ELSE IF p[(s + i) \div 8] = 255
                  THEN /\ \A q \in (s + 1)..(s + 7) : ~FreeRunAt(p, q, need)
                       /\ SkipsAreSafe(p, need, s + 8)
                  ELSE SkipsAreSafe(p, need, s + i + 1)

\* C10: the skip-ahead taken at a fully occupied bitmap byte never skips past
\* the start of a free run, whatever start position the scan is at, and the
\* scan still finds a free run that follows.
C10_SkipByteCorrect ==
    Completed =>
       \A need \in Needs :
          /\ SkipsAreSafe(pool, need, 0)
          /\ (\E s \in Chunks : FreeRunAt(pool, s, need)) => Scan(pool, need, 0) # -1

\* chunks s .. s+need-1 are all free and lie in [0, CHUNK_COUNT)
FreeRunWithin(p, s, need) ==
    /\ s + need <= CHUNK_COUNT
    /\ \A c \in Run(s, need) : ~Occupied(p, c)

\* C11: kmalloc halts with the out-of-memory assertion only if no free run of
\* need chunks exists anywhere in [0, CHUNK_COUNT), a run that ends exactly at
\* the last chunk included.
C11_OomOnlyWhenNoRun ==
    (halted = "oom") => \A s \in Chunks : ~FreeRunWithin(pool, s, last.need)

\* C12: from an empty bitmap every successful kmalloc returns start chunk 0,
\* and after kfree of that allocation an immediately following kmalloc of the
\* same size returns start chunk 0 again.
C12_FirstFitDeterminism ==
    [][(/\ last'.op = "kmalloc" /\ ops' = ops + 1 /\ halted' = "no"
        /\ \/ \A c \in Chunks : ~Occupied(pool, c)
           \/ (ops = 2 /\ last.op = "kfree" /\ live = {} /\ last'.need = last.need))
       => last'.start = 0]_vars

\* kmalloc, kfree of its result, kmalloc of the same size again
C12_Witness ==
    /\ Completed
    /\ ops = 3
    /\ last.op = "kmalloc"
    /\ last.start = 0
    /\ last.need = divide_and_round_up(probe.size + NodeSize, CHUNK_SIZE)
    /\ probe.size = MaxRequest
    /\ \E a \in live : live = {a} /\ a.id = 2

\* C13: whenever no free run of the needed length exists kmalloc halts with
\* the fatal assertion; when it returns, it returns a pointer to a run that
\* overlaps no occupied chunk and does not extend past CHUNK_COUNT.
C13_ExhaustionIsFatal ==
    [][(last'.op = "kmalloc" /\ ops' = ops + 1) =>
          /\ (\A s \in Chunks : ~FreeRunWithin(pool, s, last'.need)) => halted' = "oom"
          /\ halted' \in {"no", "oom"}
          /\ halted' = "no" =>
                /\ last'.start >= 0
                /\ FreeRunWithin(pool, last'.start, last'.need)
                /\ last'.ptr # 0
                /\ \E a \in live' \ live : a.ptr = last'.ptr /\ a.start = last'.start]_vars

\* kmalloc has halted in a bitmap that holds no free run of the needed length
C13_Witness ==
    /\ halted = "oom"
    /\ last.op = "kmalloc"
    /\ \E c \in Chunks : ~Occupied(pool, c)
    /\ \A s \in Chunks : ~FreeRunWithin(pool, s, last.need)

\* C14: the header address kmalloc computes for start chunk s is
\* backingAddress(w) + (s - w * chunksPerWindow) * CHUNK_SIZE with
\* w = s div chunksPerWindow, and the returned pointer is that plus NodeSize.
C14_HeaderAddress ==
    (Completed /\ last.op = "kmalloc") =>
       LET w == WindowOf(last.start)
       IN  last.ptr = pages[w]
                        + (last.start - w * (PAGE_SIZE \div CHUNK_SIZE)) * CHUNK_SIZE
                        + NodeSize

\* C17: kfree passes to free_physical_page only the address of a window that
\* is backed: never table entry 0, never a page that is not handed out.
C17_ReleasesOnlyBacked == ~badRelease

\* the bytes of a live block: [pointer - headerSize, pointer + size)
BlockBytes(a) == (a.ptr - NodeSize)..(a.ptr + a.size - 1)

\* C18: the byte ranges [pointer - headerSize, pointer + size) of any two
\* distinct live allocations never overlap.
C18_BlocksDisjoint ==
    Completed => \A a, b \in live : a # b => BlockBytes(a) \cap BlockBytes(b) = {}

\* a kmalloc call that returned, and a kfree call, as steps
KmallocStep == last'.op = "kmalloc" /\ ops' = ops + 1 /\ halted' = "no"

KfreeStep == last'.op = "kfree" /\ ops' = ops + 1

HeaderSum(m, node) ==
    (NodeByte(m, node, 0) + NodeByte(m, node, 1) + NodeByte(m, node, 2)
       + NodeByte(m, node, 3) + NodeByte(m, node, 4) + NodeByte(m, node, 5)
       + NodeByte(m, node, 6) + NodeByte(m, node, 7) + NodeByte(m, node, 8)
       + NodeByte(m, node, 9) + NodeByte(m, node, 10) + NodeByte(m, node, 11)) % 256

\* C16: whenever the header bytes before the address do not sum to 0 modulo
\* 256, kfree halts before it clears any bit or releases any page: the bitmap
\* and the page table are unchanged.
C16_BadHeaderHalts ==
    [][(KfreeStep /\ HeaderSum(mem, last'.ptr - NodeSize) # 0) =>
          /\ halted' = "checksum"
          /\ pool' = pool
          /\ pages' = pages
          /\ held' = held
          /\ badRelease' = badRelease]_vars

\* kfree has halted on a header one byte of which the caller had altered
C16_Witness ==
    /\ halted = "checksum"
    /\ last.op = "kfree"
    /\ probe.done
    /\ HeaderSum(mem, last.ptr - NodeSize) # 0
    /\ \E c \in Chunks : Occupied(pool, c)

\* C19: with a provider that hands out consecutive pages, after every
\* kalloc_eternal call every byte of [result, result + elementSize * length)
\* lies inside a page the bootstrap allocator has acquired.
C19_EternalCovered ==
    eternal.calls > 0 =>
       \A x \in eternal.result..(eternal.result + eternal.size - 1) :
          /\ eternal.first <= x
          /\ x < eternal.first + eternal.acquired * PAGE_SIZE

\* a region that starts inside a page, crosses a boundary and ends exactly on one
C19_Witness ==
    /\ eternal.calls > 1
    /\ eternal.result % PAGE_SIZE # 0
    /\ eternal.size > PAGE_SIZE
    /\ (eternal.result + eternal.size) % PAGE_SIZE = 0

\* C20: for every chunk index i the byte index kfree computes into its 16-bit
\* variable equals i div 8, the index kmalloc used for the same chunk.
C20_SameByteIndex ==
    probe.done => probe.size = pool_index(probe.start)

====
